---- MODULE Spec2Model ----
(***************************************************************************)
(* Network builders of pracapublica: BaseNetwork and its two policies,     *)
(* FrenteNetwork (shared parliamentary fronts) and VotingNetwork (signed   *)
(* roll-call agreement).  A builder owns an input table df and a graph G;  *)
(* build_network populates G or ends with an exception, get_network hands  *)
(* G out and get_sorted_edges lists its edges by weight.  The tables come  *)
(* from CamaraClient, whose paginated reads are modelled next to them.     *)
(***************************************************************************)
EXTENDS Integers, Sequences, FiniteSets, TLC

(***************************************************************************)
(* Bounds of the input tables.                                             *)
(***************************************************************************)
MaxRows == 4

\* How many get_sorted_edges calls in a row are followed.
MaxCalls == 2

\* The rows of a table that lacks one of its columns.
MaxRowsMissing == 2

\* How many times build_network is called on one instance.
MaxBuilds == 3

\* The rows of a table on which build_network is called again.
MaxRowsRebuild == 3

\* The pages the server of the paginated endpoint has.
MaxPage == 3

\* A null id_deputado (NaN): equal to no id, itself included.
NullId == 0

\* The legislators of the tables, as the enrichment step names them.
Legislators ==
    { [id |-> 1, nome |-> "Ana",   partido |-> "PT",  uf |-> "SP"],
      [id |-> 2, nome |-> "Bruno", partido |-> "PT",  uf |-> "SP"],
      [id |-> 3, nome |-> "Caio",  partido |-> "MDB", uf |-> "MG"] }

\* Legislator 1 again, under another spelling and after a change of party:
\* rows of one id_deputado that differ in name, party and state.
Renamed == [id |-> 1, nome |-> "Ana M.", partido |-> "PSDB", uf |-> "RJ"]

\* A row that came without its id_deputado.
Nameless == [id |-> NullId, nome |-> "Dora", partido |-> "PL", uf |-> "BA"]

Ids == {l.id : l \in Legislators}

Titulos == {"FrenteX", "FrenteY"}

Votacoes == {1, 2}

TiposVoto == {"Sim", "Nao"}

\* One row of the table handed to FrenteNetwork.
FrenteRow(l, t) ==
    [id_deputado |-> l.id, nome_deputado |-> l.nome,
     siglaPartido_deputado |-> l.partido, siglaUf_deputado |-> l.uf,
     titulo |-> t]

\* The row without id has one group to give.
FrenteRows ==
    {FrenteRow(l, t) : l \in Legislators \cup {Renamed}, t \in Titulos}
        \cup {FrenteRow(Nameless, "FrenteX")}

\* One row of the table handed to VotingNetwork.
VotingRow(l, b, v) ==
    [id_deputado |-> l.id, nome |-> l.nome, siglaPartido |-> l.partido,
     siglaUf |-> l.uf, id |-> b, tipoVoto |-> v]

\* The renamed legislator has one row to give: a "Sim" in ballot 1, and so
\* has the row without id.
VotingRows ==
    {VotingRow(l, b, v) : l \in Legislators, b \in Votacoes, v \in TiposVoto}
        \cup {VotingRow(Renamed, 1, "Sim"), VotingRow(Nameless, 1, "Sim")}

\* The code compares ids for equality only, never for order, so a table
\* stands for every table that renumbers its legislators: the tables
\* taken are those that number the legislators in the order in which the
\* rows first show them.
FirstSeenOrder(t) ==
    \A i \in 1..Len(t) :
        t[i].id_deputado <=
            Cardinality({t[j].id_deputado : j \in 1..(i - 1)} \ {NullId}) + 1

Tables(rows) ==
    {t \in UNION {[1..n -> rows] : n \in 0..MaxRows} : FirstSeenOrder(t)}

\* The columns each policy reads.
Columns(pol) ==
    IF pol = "frente"
    THEN {"id_deputado", "nome_deputado", "siglaPartido_deputado",
          "siglaUf_deputado", "titulo"}
    ELSE {"id_deputado", "nome", "siglaPartido", "siglaUf", "id", "tipoVoto"}

\* The value of missing for a table that has all its columns.
NoColumn == "none"

(***************************************************************************)
(* State.                                                                  *)
(***************************************************************************)
VARIABLES
    policy,     \* the concrete class of the builder: "frente" or "voting"
    df,         \* self.df, the input table (a sequence of rows)
    G,          \* self.G, the owned graph
    missing,    \* the column that df lacks, or NoColumn
    Gref,       \* the identity of the object that self.G refers to
    pc,         \* position of build_network: "new", "edges", "done", "failed"
    err,        \* the exception that ended build_network, or NoError
    todo,       \* the pairs the edge loop of build_network still has to visit
    inserted,   \* history: the edges of G in the order build_network created them
    votacao,    \* history: the ballot the voting edge loop is in (0 before the first)
    before,     \* history: G as it was when that ballot began
    op,         \* the operation that took the last step
    calls,      \* how many get_sorted_edges calls in a row have just been made
    ret,        \* the value returned by the last get_sorted_edges call
    netRet,     \* the object returned by get_network, when it took the last step
    visited,    \* history: the pairs the edge loop of this call has visited, in order
    builds,     \* how many times build_network has been called
    server,     \* what the endpoint answers for each page, when the request goes well
    max_pages,  \* the max_pages argument of _get_paginated_data
    max_retries,\* config.max_retries
    cpc,        \* position of _get_paginated_data: "idle", "loop", "returned"
    page,       \* page, the number of the page to ask for next
    all_data,   \* all_data, the items collected so far
    gets,       \* how many HTTP GETs the session has sent
    asked,      \* history: the 'pagina' parameter of every _make_request call
    http,       \* how the GET of the last _make_request call went
    raised      \* the exception the last _make_request call raised, or "none"

netVars == <<policy, df, missing, G, Gref, pc, err, todo, inserted, votacao, before,
             op, calls, ret, netRet, visited, builds>>

cliVars == <<server, max_pages, max_retries, cpc, page, all_data, gets, asked, http,
             raised>>

vars == <<netVars, cliVars>>

(***************************************************************************)
(* nx.Graph: nodes and neighbours are kept in insertion order.             *)
(***************************************************************************)
\* nx.Graph()
EmptyGraph == [node |-> <<>>, attr |-> <<>>, adj |-> <<>>, weight |-> <<>>]

Range(s) == {s[i] : i \in 1..Len(s)}

NodeSet(g) == Range(g.node)

\* The edges of g, each an unordered pair {u, v} (a self-loop is {u}).
EdgeSet(g) == DOMAIN g.weight

\* G.has_edge(u, v)
HasEdge(g, u, v) == {u, v} \in EdgeSet(g)

\* G.add_node(n, **a): a new node goes last; an existing node keeps its
\* place and takes the new attributes.
AddNode(g, n, a) ==
    IF n \in NodeSet(g)
    THEN [g EXCEPT !.attr = [g.attr EXCEPT ![n] = a]]
    ELSE [g EXCEPT !.node = Append(g.node, n),
                   !.attr = (n :> a) @@ g.attr,
                   !.adj  = (n :> <<>>) @@ g.adj]

\* The neighbour list of u after v became a neighbour.
WithNeighbour(nbrs, v) == IF v \in Range(nbrs) THEN nbrs ELSE Append(nbrs, v)

\* G.add_edge(u, v, weight=w): a new edge goes last in both neighbour
\* lists; an existing edge keeps its place and takes the new weight.
AddEdge(g, u, v, w) ==
    LET g1 == IF u \in NodeSet(g) THEN g ELSE AddNode(g, u, <<>>)
        g2 == IF v \in NodeSet(g1) THEN g1 ELSE AddNode(g1, v, <<>>)
        a1 == [g2.adj EXCEPT ![u] = WithNeighbour(@, v)]
        a2 == [a1 EXCEPT ![v] = WithNeighbour(@, u)]
    IN  [g2 EXCEPT !.adj = a2,
                   !.weight = ({u, v} :> w) @@ g2.weight]

(***************************************************************************)
(* pandas and itertools, as build_network uses them.                       *)
(***************************************************************************)
\* drop_duplicates(keep=False): every row that occurs more than once is gone.
DropDuplicatesKeepFalse(s) ==
    SelectSeq(s, LAMBDA x : Cardinality({i \in 1..Len(s) : s[i] = x}) = 1)

\* DataFrame.drop_duplicates(): the first occurrence of every distinct row,
\* in row order.
RECURSIVE DropDuplicates(_)
DropDuplicates(s) ==
    IF s = <<>> THEN <<>>
    ELSE LET front == DropDuplicates(SubSeq(s, 1, Len(s) - 1))
             x     == s[Len(s)]
         IN  IF x \in Range(front) THEN front ELSE Append(front, x)

\* itertools.combinations(s, 2): the pairs of positions i < j of s, in
\* lexicographic order of (i, j).
RECURSIVE Combinations2(_)
Combinations2(s) ==
    IF Len(s) < 2 THEN <<>>
    ELSE [j \in 1..(Len(s) - 1) |-> <<s[1], s[j + 1]>>] \o Combinations2(Tail(s))

\* The rows of t whose column col equals val, in row order
\* (df.loc[df[col] == val] and the groups of df.groupby(col)).
\* A null value selects no row.
RowsWhere(t, col, val) == SelectSeq(t, LAMBDA r : val # NullId /\ r[col] = val)

\* The ascending sequence of a finite set of integers (the key order of groupby).
RECURSIVE SortedSeq(_)
SortedSeq(S) ==
    IF S = {} THEN <<>>
    ELSE LET m == CHOOSE x \in S : \A y \in S : x <= y
         IN  <<m>> \o SortedSeq(S \ {m})

(***************************************************************************)
(* The node loop shared by both policies.                                  *)
(***************************************************************************)
\* df[['id_deputado', nomeCol]].drop_duplicates(), as (id, name) pairs.
IdNomePairs(t, nomeCol) ==
    DropDuplicates([i \in 1..Len(t) |-> <<t[i].id_deputado, t[i][nomeCol]>>])

\* for dep_id, dep_nome in ...: G.add_node(dep_id, nome=dep_nome,
\* partido=<first row of dep_id>, uf=<first row of dep_id>)
RECURSIVE AddNodes(_, _, _, _, _)
AddNodes(g, t, pairs, partidoCol, ufCol) ==
    IF pairs = <<>> THEN g
    ELSE LET dep_id   == pairs[1][1]
             dep_nome == pairs[1][2]
             first    == RowsWhere(t, "id_deputado", dep_id)[1]
             a        == [nome |-> dep_nome, partido |-> first[partidoCol],
                          uf |-> first[ufCol]]
         IN  AddNodes(AddNode(g, dep_id, a), t, Tail(pairs), partidoCol, ufCol)

FrenteAddNodes(g, t) ==
    AddNodes(g, t, IdNomePairs(t, "nome_deputado"),
             "siglaPartido_deputado", "siglaUf_deputado")

VotingAddNodes(g, t) ==
    AddNodes(g, t, IdNomePairs(t, "nome"), "siglaPartido", "siglaUf")

(***************************************************************************)
(* FrenteNetwork.build_network: the edge loop.                             *)
(***************************************************************************)
\* deputados = df[['id_deputado', 'nome_deputado']].drop_duplicates()['id_deputado'].tolist()
Deputados(t) ==
    LET pairs == IdNomePairs(t, "nome_deputado")
    IN  [i \in 1..Len(pairs) |-> pairs[i][1]]

\* dep_frentes.get(dep, set()), with
\* dep_frentes = df.groupby('id_deputado')['titulo'].apply(set).to_dict()
DepFrentes(t, dep) == {t[i].titulo : i \in {j \in 1..Len(t) : t[j].id_deputado = dep}}

\* Only the pairs of neighbours in the list, zip(deputados, deputados[1:]).
FrenteTodoConsecutive(t) ==
    LET d == Deputados(t)
    IN  [k \in 1..(IF Len(d) = 0 THEN 0 ELSE Len(d) - 1) |-> <<d[k], d[k + 1]>>]

\* combinations(deputados, 2)
FrenteTodo(t) == Combinations2(Deputados(t))

\* The union of the two sets taken for their intersection.
PesoUnion(t, dep1, dep2) == Cardinality(DepFrentes(t, dep1) \cup DepFrentes(t, dep2))

\* peso = len(dep_frentes.get(dep1, set()) & dep_frentes.get(dep2, set()))
Peso(t, dep1, dep2) == Cardinality(DepFrentes(t, dep1) \cap DepFrentes(t, dep2))

\* The edge added without the test on peso.
FrenteEdgeUnguarded(g, t, dep1, dep2) == AddEdge(g, dep1, dep2, Peso(t, dep1, dep2))

\* The weight of an edge that is already there added to, not replaced.
FrenteEdgeAdding(g, t, dep1, dep2) ==
    IF Peso(t, dep1, dep2) > 0
    THEN AddEdge(g, dep1, dep2,
                 Peso(t, dep1, dep2) +
                    (IF HasEdge(g, dep1, dep2) THEN g.weight[{dep1, dep2}] ELSE 0))
    ELSE g

\* if peso > 0: G.add_edge(dep1, dep2, weight=peso)
FrenteEdge(g, t, dep1, dep2) ==
    IF Peso(t, dep1, dep2) > 0
    THEN AddEdge(g, dep1, dep2, Peso(t, dep1, dep2))
    ELSE g

(***************************************************************************)
(* VotingNetwork.build_network: the edge loop.                             *)
(***************************************************************************)
\* The keys of df.groupby('id'), ascending.
VotacaoIds(t) == SortedSeq({t[i].id : i \in 1..Len(t)})

\* The whole table taken for the rows of one ballot.
GrupoWholeTable(t, votacao_id) == t

\* grupo: the rows of one ballot.
Grupo(t, votacao_id) == RowsWhere(t, "id", votacao_id)

\* deputados = list(votos.keys()): a dict keeps every key at the place of
\* its first row.
VotosKeys(grupo) == DropDuplicates([i \in 1..Len(grupo) |-> grupo[i].id_deputado])

\* The first row of a key kept, not the last.
VotosFirstRow(grupo, dep) == RowsWhere(grupo, "id_deputado", dep)[1].tipoVoto

\* votos[dep], votos = grupo.set_index('id_deputado')['tipoVoto'].to_dict():
\* a later row of the same key overwrites the value.
Votos(grupo, dep) ==
    LET mine == RowsWhere(grupo, "id_deputado", dep)
    IN  mine[Len(mine)].tipoVoto

\* The (votacao_id, dep1, dep2) visits of the two nested loops, in order.
RECURSIVE VotingVisits(_, _)
VotingVisits(t, ids) ==
    IF ids = <<>> THEN <<>>
    ELSE LET pairs == Combinations2(VotosKeys(Grupo(t, ids[1])))
         IN  [k \in 1..Len(pairs) |-> <<ids[1], pairs[k][1], pairs[k][2]>>]
             \o VotingVisits(t, Tail(ids))

VotingTodo(t) == VotingVisits(t, VotacaoIds(t))

\* The edge set back to weight 0 at every visit, not only when it is new.
VotingEdgeReset(g, t, votacao_id, dep1, dep2) ==
    LET grupo == Grupo(t, votacao_id)
        g0    == AddEdge(g, dep1, dep2, 0)
        delta == IF Votos(grupo, dep1) = Votos(grupo, dep2) THEN 1 ELSE -1
    IN  [g0 EXCEPT !.weight[{dep1, dep2}] = @ + delta]

\* An edge whose tally comes back to 0 removed from the graph.
VotingEdgePruned(g, t, votacao_id, dep1, dep2) ==
    LET grupo == Grupo(t, votacao_id)
        g0    == IF HasEdge(g, dep1, dep2) THEN g ELSE AddEdge(g, dep1, dep2, 0)
        delta == IF Votos(grupo, dep1) = Votos(grupo, dep2) THEN 1 ELSE -1
        w     == g0.weight[{dep1, dep2}] + delta
    IN  IF w = 0
        THEN [g0 EXCEPT !.weight = [e \in EdgeSet(g0) \ {{dep1, dep2}} |-> g0.weight[e]]]
        ELSE [g0 EXCEPT !.weight[{dep1, dep2}] = w]

\* Only equal votes counted: a disagreement leaves the weight as it is.
VotingEdgeAgreementsOnly(g, t, votacao_id, dep1, dep2) ==
    LET grupo == Grupo(t, votacao_id)
        g0    == IF HasEdge(g, dep1, dep2) THEN g ELSE AddEdge(g, dep1, dep2, 0)
        delta == IF Votos(grupo, dep1) = Votos(grupo, dep2) THEN 1 ELSE 0
    IN  [g0 EXCEPT !.weight[{dep1, dep2}] = @ + delta]

\* if not G.has_edge(dep1, dep2): G.add_edge(dep1, dep2, weight=0)
\* G[dep1][dep2]['weight'] += 1 when the two votes are equal, else -= 1
VotingEdge(g, t, votacao_id, dep1, dep2) ==
    LET grupo == Grupo(t, votacao_id)
        g0    == IF HasEdge(g, dep1, dep2) THEN g ELSE AddEdge(g, dep1, dep2, 0)
        delta == IF Votos(grupo, dep1) = Votos(grupo, dep2) THEN 1 ELSE -1
    IN  [g0 EXCEPT !.weight[{dep1, dep2}] = @ + delta]

(***************************************************************************)
(* BaseNetwork.get_sorted_edges.                                           *)
(***************************************************************************)
\* G.edges(data=True): for every node in node order, its neighbours in
\* neighbour order, skipping the neighbours whose own turn is over.
RECURSIVE EdgesFrom(_, _)
EdgesFrom(g, k) ==
    IF k > Len(g.node) THEN <<>>
    ELSE LET n    == g.node[k]
             seen == {g.node[i] : i \in 1..(k - 1)}
             nbrs == SelectSeq(g.adj[n], LAMBDA v : v \notin seen)
         IN  [i \in 1..Len(nbrs) |->
                 <<n, nbrs[i], [weight |-> g.weight[{n, nbrs[i]}]]>>]
             \o EdgesFrom(g, k + 1)

\* Every edge reported from both of its ends.
RECURSIVE EdgesFromBothEnds(_, _)
EdgesFromBothEnds(g, k) ==
    IF k > Len(g.node) THEN <<>>
    ELSE LET n    == g.node[k]
             nbrs == g.adj[n]
         IN  [i \in 1..Len(nbrs) |->
                 <<n, nbrs[i], [weight |-> g.weight[{n, nbrs[i]}]]>>]
             \o EdgesFromBothEnds(g, k + 1)

EdgesBothEnds(g) == EdgesFromBothEnds(g, 1)

Edges(g) == EdgesFrom(g, 1)

\* x inserted before the elements of equal key: ascending, but not stable.
RECURSIVE InsertSortedBeforeTies(_, _)
InsertSortedBeforeTies(s, x) ==
    IF s = <<>> THEN <<x>>
    ELSE IF s[Len(s)][3].weight < x[3].weight THEN Append(s, x)
    ELSE Append(InsertSortedBeforeTies(SubSeq(s, 1, Len(s) - 1), x), s[Len(s)])

\* x inserted into the sorted sequence s after every element whose key is
\* not greater (a stable insertion).
RECURSIVE InsertSorted(_, _)
InsertSorted(s, x) ==
    IF s = <<>> THEN <<x>>
    ELSE IF s[Len(s)][3].weight <= x[3].weight THEN Append(s, x)
    ELSE Append(InsertSorted(SubSeq(s, 1, Len(s) - 1), x), s[Len(s)])

\* sorted(seq, key=lambda x: x[2]['weight']): ascending and stable.
RECURSIVE SortedByWeight(_)
SortedByWeight(s) ==
    IF s = <<>> THEN <<>>
    ELSE InsertSorted(SortedByWeight(SubSeq(s, 1, Len(s) - 1)), s[Len(s)])

GetSortedEdgesResult(g) == SortedByWeight(Edges(g))

(***************************************************************************)
(* build_network from its first statement to its last, on a table that     *)
(* raises nothing: the node loop, then the edge loop over all its pairs.   *)
(***************************************************************************)
RECURSIVE FrenteEdges(_, _, _)
FrenteEdges(g, t, pairs) ==
    IF pairs = <<>> THEN g
    ELSE FrenteEdges(FrenteEdge(g, t, pairs[1][1], pairs[1][2]), t, Tail(pairs))

RECURSIVE VotingEdges(_, _, _)
VotingEdges(g, t, visits) ==
    IF visits = <<>> THEN g
    ELSE VotingEdges(VotingEdge(g, t, visits[1][1], visits[1][2], visits[1][3]),
                     t, Tail(visits))

BuildNetwork(pol, t) ==
    IF pol = "frente"
    THEN FrenteEdges(FrenteAddNodes(EmptyGraph, t), t, FrenteTodo(t))
    ELSE VotingEdges(VotingAddNodes(EmptyGraph, t), t, VotingTodo(t))

(***************************************************************************)
(* The exceptions that end build_network.                                  *)
(***************************************************************************)
NoError == [type |-> "none", col |-> ""]

\* pandas, on a column label that the table does not have; the message
\* names the label.
KeyError(c) == [type |-> "KeyError", col |-> c]

\* .iloc[0] on a selection without rows.
IndexError == [type |-> "IndexError", col |-> ""]

NomeCol(pol) == IF pol = "frente" THEN "nome_deputado" ELSE "nome"

PartidoCol(pol) == IF pol = "frente" THEN "siglaPartido_deputado" ELSE "siglaPartido"

UfCol(pol) == IF pol = "frente" THEN "siglaUf_deputado" ELSE "siglaUf"

\* One round of the node loop: the party column is looked up, then the
\* first row of dep_id is taken, then the same for the state column.
NodeRoundError(pol, pair, miss) ==
    IF miss = PartidoCol(pol) THEN KeyError(miss)
    ELSE IF pair[1] = NullId THEN IndexError
    ELSE IF miss = UfCol(pol) THEN KeyError(miss)
    ELSE NoError

\* The first round of the node loop that raises, 0 when none does.
NodeLoopFailsAt(pol, pairs, miss) ==
    LET bad == {k \in 1..Len(pairs) : NodeRoundError(pol, pairs[k], miss) # NoError}
    IN  IF bad = {} THEN 0 ELSE CHOOSE k \in bad : \A j \in bad : k <= j

\* What follows the node loop and comes before the first pair: the group
\* column is looked up (titulo, id), and the first ballot looks up tipoVoto.
EdgeLoopError(pol, t, miss) ==
    IF pol = "frente" /\ miss = "titulo" THEN KeyError(miss)
    ELSE IF pol = "voting" /\ miss = "id" THEN KeyError(miss)
    ELSE IF pol = "voting" /\ miss = "tipoVoto" /\ Len(t) > 0 THEN KeyError(miss)
    ELSE NoError

\* An empty table refused before anything is read.
BuildResultEmptyRefused(pol, g, t, miss) ==
    [G |-> g, err |-> [type |-> "EmptyInputError", col |-> ""]]

\* build_network up to its first pair: the graph it leaves and the
\* exception it raises, NoError when it goes on to the pairs.
BuildResult(pol, g, t, miss) ==
    IF miss \in {"id_deputado", NomeCol(pol)}
    THEN [G |-> g, err |-> KeyError(miss)]
    ELSE LET pairs == IdNomePairs(t, NomeCol(pol))
             k     == NodeLoopFailsAt(pol, pairs, miss)
         IN  IF k > 0
             THEN [G   |-> AddNodes(g, t, SubSeq(pairs, 1, k - 1),
                                    PartidoCol(pol), UfCol(pol)),
                   err |-> NodeRoundError(pol, pairs[k], miss)]
             ELSE [G   |-> IF pol = "frente" THEN FrenteAddNodes(g, t)
                                             ELSE VotingAddNodes(g, t),
                   err |-> EdgeLoopError(pol, t, miss)]

(***************************************************************************)
(* The builder as a state machine.                                         *)
(***************************************************************************)
RowsOf(pol) == IF pol = "frente" THEN FrenteRows ELSE VotingRows

\* No paginated read is going on.
ClientIdle ==
    /\ server = <<>>
    /\ max_pages = [given |-> FALSE, n |-> 0]
    /\ max_retries = 3
    /\ cpc = "idle"
    /\ page = 1
    /\ all_data = <<>>
    /\ gets = 0
    /\ asked = <<>>
    /\ http = "none"
    /\ raised = "none"

\* BaseNetwork.__init__(df): self.df = df, self.G = nx.Graph()
Init ==
    /\ policy \in {"frente", "voting"}
    /\ \/ /\ missing = NoColumn
          /\ df \in Tables(RowsOf(policy))
       \/ /\ missing \in Columns(policy)
          /\ df \in {t \in Tables(RowsOf(policy)) : Len(t) <= MaxRowsMissing}
    /\ G = EmptyGraph
    /\ Gref = 1
    /\ pc = "new"
    /\ err = NoError
    /\ todo = <<>>
    /\ inserted = <<>>
    /\ votacao = 0
    /\ before = EmptyGraph
    /\ op = "init"
    /\ calls = 0
    /\ ret = <<>>
    /\ netRet = 0
    /\ visited = <<>>
    /\ builds = 0
    /\ ClientIdle

\* The edges of g2 that g1 does not have, appended to the history h.
Record(h, g1, g2, e) == IF e \in EdgeSet(g2) \ EdgeSet(g1) THEN Append(h, e) ELSE h

\* A call of build_network, up to the start of the edge loop: the node
\* loop, and the sequence of pairs that the edge loop will visit.
StartBuild ==
    /\ LET r == BuildResult(policy, G, df, missing)
       IN  /\ G' = r.G
           /\ err' = r.err
           /\ todo' = IF r.err # NoError THEN <<>>
                      ELSE IF policy = "frente" THEN FrenteTodo(df) ELSE VotingTodo(df)
           /\ pc' = IF r.err # NoError THEN "failed"
                    ELSE IF todo' = <<>> THEN "done" ELSE "edges"
    /\ op' = "build_network"
    /\ calls' = 0
    /\ ret' = <<>>
    /\ netRet' = 0
    /\ votacao' = 0
    /\ visited' = <<>>
    /\ builds' = builds + 1
    /\ UNCHANGED <<policy, df, missing, Gref, inserted, before>>
    /\ UNCHANGED cliVars

\* The first call of build_network on the instance.
BuildNodes ==
    /\ pc = "new"
    /\ StartBuild

\* build_network called again, after a call that returned or raised.
Rebuild ==
    /\ pc \in {"done", "failed"}
    /\ builds < MaxBuilds
    /\ StartBuild

\* One round of the edge loop of FrenteNetwork.build_network.
FrentePair ==
    /\ pc = "edges"
    /\ policy = "frente"
    /\ LET dep1 == todo[1][1]
           dep2 == todo[1][2]
       IN  /\ G' = FrenteEdge(G, df, dep1, dep2)
           /\ inserted' = Record(inserted, G, G', {dep1, dep2})
    /\ visited' = Append(visited, todo[1])
    /\ todo' = Tail(todo)
    /\ pc' = IF todo' = <<>> THEN "done" ELSE "edges"
    /\ op' = "build_network"
    /\ UNCHANGED <<policy, df, missing, Gref, err, votacao, before, calls, ret, netRet,
                   builds>>
    /\ UNCHANGED cliVars

\* One round of the inner edge loop of VotingNetwork.build_network.
VotingPair ==
    /\ pc = "edges"
    /\ policy = "voting"
    /\ LET dep1 == todo[1][2]
           dep2 == todo[1][3]
       IN  /\ G' = VotingEdge(G, df, todo[1][1], dep1, dep2)
           /\ inserted' = Record(inserted, G, G', {dep1, dep2})
    /\ votacao' = todo[1][1]
    /\ before' = IF todo[1][1] # votacao THEN G ELSE before
    /\ visited' = Append(visited, todo[1])
    /\ todo' = Tail(todo)
    /\ pc' = IF todo' = <<>> THEN "done" ELSE "edges"
    /\ op' = "build_network"
    /\ UNCHANGED <<policy, df, missing, Gref, err, calls, ret, netRet, builds>>
    /\ UNCHANGED cliVars

\* The listing taken out of the graph: the edges are gone after the call.
GetSortedEdgesDraining ==
    /\ pc \in {"new", "done", "failed"}
    /\ calls < MaxCalls
    /\ ret' = GetSortedEdgesResult(G)
    /\ G' = [G EXCEPT !.adj = [n \in DOMAIN G.adj |-> <<>>], !.weight = <<>>]
    /\ op' = "get_sorted_edges"
    /\ calls' = calls + 1
    /\ netRet' = 0
    /\ UNCHANGED <<policy, df, missing, Gref, pc, err, todo, inserted, votacao, before,
                   visited, builds>>
    /\ UNCHANGED cliVars

\* get_sorted_edges(), called before or after build_network.
GetSortedEdges ==
    /\ pc \in {"new", "done", "failed"}
    /\ calls < MaxCalls
    /\ ret' = GetSortedEdgesResult(G)
    /\ op' = "get_sorted_edges"
    /\ calls' = calls + 1
    /\ netRet' = 0
    /\ UNCHANGED <<policy, df, missing, G, Gref, pc, err, todo, inserted, votacao, before,
                   visited, builds>>
    /\ UNCHANGED cliVars

\* A copy of the graph handed out: another object at every call.
GetNetworkCopy ==
    /\ pc \in {"new", "done", "failed"}
    /\ netRet' = Gref + 1
    /\ op' = "get_network"
    /\ calls' = 0
    /\ ret' = <<>>
    /\ UNCHANGED <<policy, df, missing, G, Gref, pc, err, todo, inserted, votacao, before,
                   visited, builds>>
    /\ UNCHANGED cliVars

\* get_network(): return self.G
GetNetwork ==
    /\ pc \in {"new", "done", "failed"}
    /\ netRet' = Gref
    /\ op' = "get_network"
    /\ calls' = 0
    /\ ret' = <<>>
    /\ UNCHANGED <<policy, df, missing, G, Gref, pc, err, todo, inserted, votacao, before,
                   visited, builds>>
    /\ UNCHANGED cliVars

Next == BuildNodes \/ FrentePair \/ VotingPair \/ GetSortedEdges \/ GetNetwork

Spec == Init /\ [][Next]_vars

(***************************************************************************)
(* The builder on which build_network is called more than once.            *)
(***************************************************************************)
InitRebuild ==
    /\ Init
    /\ missing = NoColumn
    /\ Len(df) <= MaxRowsRebuild

NextRebuild == BuildNodes \/ Rebuild \/ FrentePair \/ VotingPair

SpecRebuild == InitRebuild /\ [][NextRebuild]_vars

(***************************************************************************)
(* CamaraClient: _make_request and _get_paginated_data.                    *)
(***************************************************************************)
\* How the GET of one request can go: a JSON body comes back; the transport
\* fails (connection, timeout); raise_for_status meets an error status; the
\* body is not JSON.
HttpOutcomes == {"ok", "transport", "status", "badjson"}

\* CamaraConfig.max_retries
DefaultMaxRetries == 3

\* The JSON body of page p: no 'dados' key at all, or 'dados' with up to
\* two items and, when it has items, with or without a link of rel 'next'.
NoDados == [has |-> FALSE, dados |-> <<>>, next |-> FALSE]

Bodies(p) ==
    {NoDados, [has |-> TRUE, dados |-> <<>>, next |-> FALSE]}
        \cup {[has |-> TRUE, dados |-> d, next |-> b] :
                d \in {<<10 * p + 1>>, <<10 * p + 1, 10 * p + 2>>}, b \in BOOLEAN}

Servers == {sv \in [1..MaxPage -> UNION {Bodies(p) : p \in 1..MaxPage}] :
                \A p \in 1..MaxPage : sv[p] \in Bodies(p)}

\* max_pages: None, or an int from 0 up.
MaxPagesArgs ==
    {[given |-> FALSE, n |-> 0]} \cup {[given |-> TRUE, n |-> k] : k \in 0..MaxPage}

\* bool(max_pages): None and 0 are false.
Truthy(mp) == mp.given /\ mp.n # 0

\* The request sent again until max_retries GETs have failed.
MakeRequestRetrying(o, body, retries) ==
    IF o = "ok" THEN [gets |-> 1, raised |-> "none", json |-> body]
    ELSE [gets |-> retries, raised |-> "CamaraAPIError", json |-> NoDados]

\* _make_request: one session.get; a RequestException (transport, status,
\* and the JSONDecodeError of response.json()) becomes CamaraAPIError.
MakeRequest(o, body, retries) ==
    IF o = "ok" THEN [gets |-> 1, raised |-> "none", json |-> body]
    ELSE [gets |-> 1, raised |-> "CamaraAPIError", json |-> NoDados]

\* _get_paginated_data is called: all_data = [], page = 1
InitClient ==
    /\ policy = "frente"
    /\ df = <<>>
    /\ missing = NoColumn
    /\ G = EmptyGraph
    /\ Gref = 1
    /\ pc = "new"
    /\ err = NoError
    /\ todo = <<>>
    /\ inserted = <<>>
    /\ votacao = 0
    /\ before = EmptyGraph
    /\ op = "init"
    /\ calls = 0
    /\ ret = <<>>
    /\ netRet = 0
    /\ visited = <<>>
    /\ builds = 0
    /\ server \in Servers
    /\ max_pages \in MaxPagesArgs
    /\ max_retries \in {1, DefaultMaxRetries}
    /\ cpc = "loop"
    /\ page = 1
    /\ all_data = <<>>
    /\ gets = 0
    /\ asked = <<>>
    /\ http = "none"
    /\ raised = "none"

\* if max_pages and page > max_pages: break
StopAtMaxPages ==
    /\ cpc = "loop"
    /\ Truthy(max_pages) /\ page > max_pages.n
    /\ cpc' = "returned"
    /\ UNCHANGED <<server, max_pages, max_retries, page, all_data, gets, asked, http,
                   raised>>
    /\ UNCHANGED netVars

\* One round of the while loop that gets as far as the request.
FetchPage ==
    /\ cpc = "loop"
    /\ ~(Truthy(max_pages) /\ page > max_pages.n)
    /\ page <= MaxPage
    /\ \E o \in HttpOutcomes :
          LET r == MakeRequest(o, server[page], max_retries)
              more == /\ r.raised = "none"
                      /\ r.json.has
                      /\ r.json.dados # <<>>
                      /\ r.json.next
          IN  /\ http' = o
              /\ raised' = r.raised
              /\ gets' = gets + r.gets
              /\ asked' = Append(asked, page)
              /\ all_data' = IF r.raised = "none" /\ r.json.has
                             THEN all_data \o r.json.dados
                             ELSE all_data
              /\ page' = IF more THEN page + 1 ELSE page
              /\ cpc' = IF more THEN "loop" ELSE "returned"
    /\ UNCHANGED <<server, max_pages, max_retries>>
    /\ UNCHANGED netVars

NextClient == StopAtMaxPages \/ FetchPage

SpecClient == InitClient /\ [][NextClient]_vars

(***************************************************************************)
(* What the claims speak about, read off the input table alone.            *)
(***************************************************************************)
\* The distinct id_deputado values of the rows of df.
TableIds == {df[i].id_deputado : i \in 1..Len(df)}

\* The groups that occur both in a row of a and in a row of b.
SharedTitulos(a, b) ==
    {x \in Titulos :
        /\ \E i \in 1..Len(df) : df[i].id_deputado = a /\ df[i].titulo = x
        /\ \E j \in 1..Len(df) : df[j].id_deputado = b /\ df[j].titulo = x}

Built == pc = "done"

(***************************************************************************)
(* C1.  After build_network of either policy the node set of G is exactly  *)
(* the set of distinct id_deputado values of the table, every id once.     *)
(***************************************************************************)
C1_NodeSetIsTableIds ==
    Built => /\ NodeSet(G) = TableIds
             /\ Len(G.node) = Cardinality(TableIds)

\* Both spellings of legislator 1 and a second legislator were read.
C1_Witness ==
    /\ Built /\ policy = "frente"
    /\ NodeSet(G) = {1, 2}
    /\ \E i, j \in 1..Len(df) :
          /\ df[i].id_deputado = 1 /\ df[j].id_deputado = 1
          /\ df[i].siglaUf_deputado # df[j].siglaUf_deputado

(***************************************************************************)
(* C2.  Neither policy ever creates an edge from a legislator to itself:   *)
(* every edge joins two distinct ids, whatever the table.                  *)
(***************************************************************************)
C2_NoSelfLoop == \A e \in EdgeSet(G) : Cardinality(e) = 2

(***************************************************************************)
(* C3.  After FrenteNetwork.build_network the weight of an edge between    *)
(* two distinct legislators is the number of distinct groups they share.   *)
(***************************************************************************)
C3_FrenteWeightIsSharedCount ==
    (Built /\ policy = "frente") =>
        \A a, b \in Ids :
            (a # b /\ HasEdge(G, a, b)) =>
                G.weight[{a, b}] = Cardinality(SharedTitulos(a, b))

\* Two legislators that are both in both groups.
C3_Witness ==
    /\ Built /\ policy = "frente"
    /\ \E a, b \in Ids :
          /\ a # b
          /\ HasEdge(G, a, b)
          /\ G.weight[{a, b}] = 2

(***************************************************************************)
(* C4.  After FrenteNetwork.build_network two distinct legislators have an *)
(* edge if and only if they share at least one group, and no edge has a    *)
(* weight of 0 or less.                                                    *)
(***************************************************************************)
C4_FrenteEdgeIffShared ==
    (Built /\ policy = "frente") =>
        /\ \A a, b \in Ids :
              a # b => (HasEdge(G, a, b) <=> SharedTitulos(a, b) # {})
        /\ \A e \in EdgeSet(G) : G.weight[e] > 0

\* Three legislators in the table: one pair shares a group, one does not.
C4_Witness ==
    /\ Built /\ policy = "frente"
    /\ \E a, b, c \in NodeSet(G) :
          /\ Cardinality({a, b, c}) = 3
          /\ HasEdge(G, a, b)
          /\ ~HasEdge(G, a, c)

(***************************************************************************)
(* The ballots of the voting table, read off the table alone.              *)
(***************************************************************************)
\* One row per (legislator, ballot).
OneRowPerVote ==
    \A i, j \in 1..Len(df) :
        (df[i].id_deputado = df[j].id_deputado /\ df[i].id = df[j].id) => i = j

\* a voted in ballot v.
VotedIn(a, v) == \E i \in 1..Len(df) : df[i].id_deputado = a /\ df[i].id = v

\* The ballots in which both a and b voted.
CoVotes(a, b) == {v \in Votacoes : VotedIn(a, v) /\ VotedIn(b, v)}

\* The vote of a in ballot v, in a table with one row per (legislator, ballot).
VoteOf(a, v) ==
    df[CHOOSE i \in 1..Len(df) : df[i].id_deputado = a /\ df[i].id = v].tipoVoto

Agreements(a, b) == {v \in CoVotes(a, b) : VoteOf(a, v) = VoteOf(b, v)}

Disagreements(a, b) == {v \in CoVotes(a, b) : VoteOf(a, v) # VoteOf(b, v)}

(***************************************************************************)
(* C5.  After VotingNetwork.build_network on a table with one row per      *)
(* (legislator, ballot), the weight of the edge between a and b is the     *)
(* number of ballots in which both voted alike minus the number of ballots *)
(* in which both voted differently.                                        *)
(***************************************************************************)
C5_VotingWeightIsTally ==
    (Built /\ policy = "voting" /\ OneRowPerVote) =>
        \A a, b \in Ids :
            (a # b /\ CoVotes(a, b) # {}) =>
                /\ HasEdge(G, a, b)
                /\ G.weight[{a, b}] =
                      Cardinality(Agreements(a, b)) - Cardinality(Disagreements(a, b))

\* Two ballots, the same two legislators in both, agreeing in both.
C5_Witness ==
    /\ Built /\ policy = "voting" /\ OneRowPerVote
    /\ \E a, b \in Ids :
          /\ a # b
          /\ Cardinality(Agreements(a, b)) = 2
          /\ G.weight[{a, b}] = 2

(***************************************************************************)
(* C6.  In VotingNetwork.build_network an edge, once created, is never     *)
(* removed: every step keeps every edge, also when its weight is back at 0.*)
(***************************************************************************)
C6_VotingEdgesStay ==
    [][policy = "voting" => EdgeSet(G) \subseteq EdgeSet(G')]_vars

\* An agreement and a disagreement: the edge is there with weight 0.
C6_Witness ==
    /\ Built /\ policy = "voting"
    /\ \E a, b \in Ids :
          /\ a # b
          /\ Cardinality(CoVotes(a, b)) = 2
          /\ HasEdge(G, a, b)
          /\ G.weight[{a, b}] = 0

(***************************************************************************)
(* C7.  Two legislators who never voted in the same ballot have no edge in *)
(* the voting graph, not even one of weight 0.                             *)
(***************************************************************************)
C7_NoCoVoteNoEdge ==
    policy = "voting" =>
        \A a, b \in Ids :
            (a # b /\ CoVotes(a, b) = {}) => ~HasEdge(G, a, b)

\* Three legislators voted; one pair met in a ballot, another pair never.
C7_Witness ==
    /\ Built /\ policy = "voting"
    /\ \E a, b, c \in NodeSet(G) :
          /\ Cardinality({a, b, c}) = 3
          /\ HasEdge(G, a, b)
          /\ CoVotes(a, c) = {} /\ ~HasEdge(G, a, c)

(***************************************************************************)
(* The sequence returned by get_sorted_edges.                              *)
(***************************************************************************)
\* The edge that an element (node_a, node_b, attributes) stands for.
EdgeOf(x) == {x[1], x[2]}

\* The place of x in a sequence that holds it once.
PlaceIn(s, x) == CHOOSE k \in 1..Len(s) : s[k] = x

Returned == op = "get_sorted_edges"

(***************************************************************************)
(* C8.  get_sorted_edges returns every edge of the graph exactly once, as  *)
(* (node_a, node_b, attributes) with the edge's weight, and the sequence   *)
(* is non-decreasing in weight.                                            *)
(***************************************************************************)
C8_SortedEdgesComplete ==
    Returned =>
        /\ Len(ret) = Cardinality(EdgeSet(G))
        /\ {EdgeOf(ret[i]) : i \in 1..Len(ret)} = EdgeSet(G)
        /\ \A i \in 1..Len(ret) :
              /\ Len(ret[i]) = 3
              /\ ret[i][1] \in NodeSet(G) /\ ret[i][2] \in NodeSet(G)
              /\ ret[i][3] = [weight |-> G.weight[EdgeOf(ret[i])]]
        /\ \A i, j \in 1..Len(ret) :
              i < j => ret[i][3].weight <= ret[j][3].weight

\* Three edges of two different weights come back, the heavier one last
\* although the graph holds it first.
C8_Witness ==
    /\ Returned /\ Built
    /\ Len(ret) = 3
    /\ ret[1][3].weight < ret[3][3].weight
    /\ Edges(G)[1] = ret[3]

(***************************************************************************)
(* C9.  In the sequence returned by get_sorted_edges, two edges of equal   *)
(* weight appear in the order in which build_network inserted them into    *)
(* the graph, for the membership policy and for the voting policy.         *)
(***************************************************************************)
C9_TiesInInsertionOrder ==
    Returned =>
        \A i, j \in 1..Len(ret) :
            (i < j /\ ret[i][3].weight = ret[j][3].weight) =>
                PlaceIn(inserted, EdgeOf(ret[i])) < PlaceIn(inserted, EdgeOf(ret[j]))

(***************************************************************************)
(* C9, amended.  Two edges of equal weight appear in the order in which    *)
(* the edge iteration of the graph yields them (node by node in node       *)
(* order, the neighbours of a node in neighbour order); for the membership *)
(* policy that is the order in which build_network inserted them.          *)
(***************************************************************************)
C9_TiesInEdgeViewOrder ==
    Returned =>
        \A i, j \in 1..Len(ret) :
            (i < j /\ ret[i][3].weight = ret[j][3].weight) =>
                /\ PlaceIn(Edges(G), ret[i]) < PlaceIn(Edges(G), ret[j])
                /\ policy = "frente" =>
                      PlaceIn(inserted, EdgeOf(ret[i])) < PlaceIn(inserted, EdgeOf(ret[j]))

\* Three edges of the membership graph come back: the heaviest was inserted
\* first and comes last, the other two are tied.
C9_Witness ==
    /\ Returned /\ Built /\ policy = "frente"
    /\ Len(ret) = 3
    /\ ret[1][3].weight = ret[2][3].weight
    /\ ret[2][3].weight < ret[3][3].weight
    /\ inserted[1] = EdgeOf(ret[3])

(***************************************************************************)
(* C10.  get_sorted_edges leaves the graph as it is, and a call that       *)
(* follows another call returns the same sequence.                         *)
(***************************************************************************)
C10_SortedEdgesPure ==
    [][op' = "get_sorted_edges" =>
          /\ G' = G
          /\ op = "get_sorted_edges" => ret' = ret]_vars

\* Two calls in a row on a built graph with two edges.
C10_Witness ==
    /\ Returned /\ Built
    /\ calls = 2
    /\ Len(ret) >= 2

(***************************************************************************)
(* How build_network ended, and the first row of an id.                    *)
(***************************************************************************)
Failed == pc = "failed"

Called == pc # "new"

HasNullId == \E i \in 1..Len(df) : df[i].id_deputado = NullId

\* The first row of df that carries the id n.
FirstRowOf(n) == df[CHOOSE i \in 1..Len(df) :
                        /\ df[i].id_deputado = n
                        /\ \A j \in 1..(i - 1) : df[j].id_deputado # n]

(***************************************************************************)
(* C11.  build_network of either policy on a table with zero rows (and     *)
(* with the columns of the policy) completes without raising and leaves a  *)
(* graph with zero nodes and zero edges, on which get_sorted_edges returns *)
(* the empty sequence.                                                     *)
(***************************************************************************)
C11_EmptyTableBuilds ==
    (Len(df) = 0 /\ missing = NoColumn /\ Called) =>
        /\ Built
        /\ err = NoError
        /\ NodeSet(G) = {}
        /\ EdgeSet(G) = {}
        /\ Returned => ret = <<>>

\* get_sorted_edges after the voting policy was built on zero rows.
C11_Witness ==
    /\ Len(df) = 0 /\ missing = NoColumn /\ policy = "voting"
    /\ Built /\ Returned
    /\ ret = <<>>

(***************************************************************************)
(* C12.  When the table lacks a column that the policy in use requires,    *)
(* build_network fails with InvalidInputError and the error names the      *)
(* missing column.                                                         *)
(***************************************************************************)
C12_MissingColumnIsInvalidInput ==
    (missing # NoColumn /\ Called) =>
        /\ Failed
        /\ err = [type |-> "InvalidInputError", col |-> missing]

(***************************************************************************)
(* C13.  Construction is all-or-nothing: when build_network ended with an  *)
(* error, the graph that get_network hands out has no node and no edge.    *)
(***************************************************************************)
C13_AllOrNothing ==
    (Failed /\ op = "get_network") => (NodeSet(G) = {} /\ EdgeSet(G) = {})

(***************************************************************************)
(* C14.  After build_network of either policy the name, party and state of *)
(* every node are those of the first row of the table that carries the     *)
(* node's id_deputado.                                                     *)
(***************************************************************************)
C14_AttributesOfFirstRow ==
    Built =>
        \A n \in NodeSet(G) :
            /\ G.attr[n].nome = FirstRowOf(n)[NomeCol(policy)]
            /\ G.attr[n].partido = FirstRowOf(n)[PartidoCol(policy)]
            /\ G.attr[n].uf = FirstRowOf(n)[UfCol(policy)]

(***************************************************************************)
(* C15.  get_network returns the same graph object at every call, before   *)
(* and after build_network, which never replaces the object; and a call of *)
(* get_network changes nothing in the graph.                               *)
(***************************************************************************)
C15_GetNetworkSameObject ==
    /\ [](op = "get_network" => netRet = Gref)
    /\ [][Gref' = Gref /\ (op' = "get_network" => G' = G)]_vars

\* get_network after a build that added an edge.
C15_Witness ==
    /\ op = "get_network" /\ Built
    /\ EdgeSet(G) # {}
    /\ netRet = Gref

(***************************************************************************)
(* C16.  The graph has zero nodes and zero edges from the construction of  *)
(* the builder until build_network is called, and only build_network       *)
(* changes it: get_network and get_sorted_edges add and remove nothing.    *)
(***************************************************************************)
C16_OnlyBuildChangesGraph ==
    /\ [](pc = "new" => G = EmptyGraph)
    /\ [][op' # "build_network" => G' = G]_vars

\* Both accessors were called on a builder with rows before build_network.
C16_Witness ==
    /\ pc = "new" /\ Len(df) > 0
    /\ op = "get_network" /\ netRet = Gref
    /\ G = EmptyGraph

(***************************************************************************)
(* C18.  build_network of either policy on a table with a row whose        *)
(* id_deputado is null ends with an error, and leaves no partly populated  *)
(* graph behind.                                                           *)
(***************************************************************************)
C18_NullIdFailsFast ==
    (HasNullId /\ Called) => (Failed /\ G = EmptyGraph)

(***************************************************************************)
(* One ballot of VotingNetwork.build_network, from its first pair to its   *)
(* last: before is the graph at the first pair of the ballot votacao.      *)
(***************************************************************************)
\* All the pairs of the ballot votacao have been visited.
BallotDone ==
    /\ policy = "voting"
    /\ votacao # 0
    /\ pc \in {"edges", "done"}
    /\ todo = <<>> \/ todo[1][1] # votacao

\* The weight of the pair e in g, 0 when g has no such edge.
WeightOrZero(g, e) == IF e \in EdgeSet(g) THEN g.weight[e] ELSE 0

(***************************************************************************)
(* C19.  Processing one ballot changes the weight of every unordered pair  *)
(* of legislators who both voted in it by exactly +1 or exactly -1,        *)
(* counted from 0 when the pair had no edge: +1 for equal tipoVoto and -1  *)
(* for different tipoVoto (in a table with one row per legislator and      *)
(* ballot); every other pair keeps its edge, or its absence, and its       *)
(* weight.                                                                 *)
(***************************************************************************)
C19_BallotStep ==
    BallotDone =>
        \A a, b \in Ids :
            a < b =>
                LET e == {a, b}
                IN  IF VotedIn(a, votacao) /\ VotedIn(b, votacao)
                    THEN /\ e \in EdgeSet(G)
                         /\ G.weight[e] - WeightOrZero(before, e) \in {1, -1}
                         /\ OneRowPerVote =>
                                G.weight[e] - WeightOrZero(before, e) =
                                    IF VoteOf(a, votacao) = VoteOf(b, votacao)
                                    THEN 1 ELSE -1
                    ELSE /\ e \in EdgeSet(G) <=> e \in EdgeSet(before)
                         /\ WeightOrZero(G, e) = WeightOrZero(before, e)

\* The second ballot is over: it gave the new pair {2, 3} the weight -1
\* and left the edge {1, 2} of the first ballot as it was.
C19_Witness ==
    /\ BallotDone /\ votacao = 2 /\ OneRowPerVote
    /\ {1, 2} \in EdgeSet(before)
    /\ {2, 3} \notin EdgeSet(before)
    /\ ~VotedIn(1, 2)
    /\ {2, 3} \in EdgeSet(G)
    /\ G.weight[{2, 3}] = -1
    /\ G.weight[{1, 2}] = before.weight[{1, 2}]

(***************************************************************************)
(* The same rows in another order.                                         *)
(***************************************************************************)
\* The permutations of 1..n, for every length of table.
RowOrders ==
    [n \in 0..MaxRows |->
        {p \in [1..n -> 1..n] : \A i, j \in 1..n : p[i] = p[j] => i = j}]

\* The rows of t in the order p.
Permuted(t, p) == [i \in 1..Len(t) |-> t[p[i]]]

\* One row per (legislator, event): per group, per ballot.
OneRowPerEvent ==
    \A i, j \in 1..Len(df) :
        /\ df[i].id_deputado = df[j].id_deputado
        /\ IF policy = "frente" THEN df[i].titulo = df[j].titulo
                                ELSE df[i].id = df[j].id
        => i = j

(***************************************************************************)
(* C20.  The edges and their weights do not depend on the order of the     *)
(* rows: for either policy and a table with one row per (legislator,       *)
(* event), build_network on any permutation of the rows gives the same     *)
(* set of edges with the same weights.                                     *)
(***************************************************************************)
C20_RowOrderIrrelevant ==
    (Built /\ op = "build_network" /\ OneRowPerEvent) =>
        \A p \in RowOrders[Len(df)] :
            BuildNetwork(policy, Permuted(df, p)).weight = G.weight

\* Three legislators in two ballots, rows not grouped by ballot, and the
\* graph has two edges.
C20_Witness ==
    /\ Built /\ op = "build_network" /\ OneRowPerEvent
    /\ policy = "voting" /\ Len(df) = 4
    /\ df[1].id # df[2].id
    /\ Cardinality(EdgeSet(G)) = 2

(***************************************************************************)
(* The rounds of the edge loop, counted per pair of legislators.           *)
(***************************************************************************)
\* The rounds of the membership edge loop that visited the pair e.
FrenteVisitsOf(e) ==
    {i \in 1..Len(visited) : {visited[i][1], visited[i][2]} = e}

\* The rounds of the voting edge loop that visited the pair e in ballot v.
VotingVisitsOf(v, e) ==
    {i \in 1..Len(visited) :
        visited[i][1] = v /\ {visited[i][2], visited[i][3]} = e}

(***************************************************************************)
(* C21.  The edge loop visits every unordered pair of distinct legislators *)
(* exactly once: once per build in FrenteNetwork, once per ballot in which *)
(* both voted in VotingNetwork; no pair is skipped, none is visited twice, *)
(* and nothing else is visited.                                            *)
(***************************************************************************)
C21_EveryPairOnce ==
    Built =>
        IF policy = "frente"
        THEN /\ \A a, b \in TableIds :
                    a # b => Cardinality(FrenteVisitsOf({a, b})) = 1
             /\ \A i \in 1..Len(visited) : visited[i][1] # visited[i][2]
        ELSE /\ \A v \in Votacoes : \A a, b \in TableIds :
                    a # b => Cardinality(VotingVisitsOf(v, {a, b})) =
                                 IF VotedIn(a, v) /\ VotedIn(b, v) THEN 1 ELSE 0
             /\ \A i \in 1..Len(visited) : visited[i][2] # visited[i][3]

(***************************************************************************)
(* A table with one more row.                                              *)
(***************************************************************************)
\* The table t with the row r put after its first k rows.
WithRowAt(t, k, r) == SubSeq(t, 1, k) \o <<r>> \o SubSeq(t, k + 1, Len(t))

\* The rows that repeat the id_deputado and the titulo of a row of df.
DuplicateRows ==
    {r \in FrenteRows :
        \E i \in 1..Len(df) :
            df[i].id_deputado = r.id_deputado /\ df[i].titulo = r.titulo}

(***************************************************************************)
(* C22.  In FrenteNetwork.build_network the memberships are sets: a row    *)
(* added to the table that repeats the id_deputado and the titulo of a row *)
(* already there changes neither the edge set nor any edge weight.         *)
(***************************************************************************)
C22_DuplicateRowChangesNothing ==
    (Built /\ op = "build_network" /\ policy = "frente") =>
        \A r \in DuplicateRows : \A k \in 0..Len(df) :
            BuildNetwork("frente", WithRowAt(df, k, r)).weight = G.weight

(***************************************************************************)
(* C23.  A second call of FrenteNetwork.build_network on the same instance *)
(* is idempotent: nodes, node attributes, edges and edge weights after it  *)
(* are those after the first call (which are those of one call on a new    *)
(* graph).                                                                 *)
(***************************************************************************)
C23_FrenteRebuildIdempotent ==
    (Built /\ policy = "frente") => G = BuildNetwork("frente", df)

\* The second call has returned, on a table that gives the graph two
\* edges of different weights.
C23_Witness ==
    /\ Built /\ policy = "frente" /\ builds = 2
    /\ \E e, f \in EdgeSet(G) : G.weight[e] = 1 /\ G.weight[f] = 2

(***************************************************************************)
(* C24.  k calls of VotingNetwork.build_network on the same instance add   *)
(* up on the edges that are there: the nodes and the edges are those of    *)
(* one call, and every weight is k times the weight after one call.        *)
(***************************************************************************)
C24_VotingRebuildAccumulates ==
    (Built /\ policy = "voting") =>
        LET once == BuildNetwork("voting", df)
        IN  /\ NodeSet(G) = NodeSet(once)
            /\ EdgeSet(G) = EdgeSet(once)
            /\ \A e \in EdgeSet(G) : G.weight[e] = builds * once.weight[e]

\* Three calls: an agreement counts 3 and a disagreement counts -3.
C24_Witness ==
    /\ Built /\ policy = "voting" /\ builds = 3
    /\ \E e, f \in EdgeSet(G) : G.weight[e] = 3 /\ G.weight[f] = -3

(***************************************************************************)
(* The ballots behind an edge, while VotingNetwork.build_network runs.     *)
(***************************************************************************)
\* build_network of the voting policy is under way or has returned.
VotingUnderWay == policy = "voting" /\ pc \in {"edges", "done"}

\* The ballot v is over: the loop has left it behind, with all its pairs.
BallotProcessed(v) == \A i \in 1..Len(todo) : todo[i][1] > v

\* The ballots already processed in which both ends of e voted.
ProcessedCoVotes(e) ==
    {v \in Votacoes : BallotProcessed(v) /\ \A a \in e : VotedIn(a, v)}

\* The ballots in which the pair e has had its round of the pair loop.
VisitedCoVotes(e) == {v \in Votacoes : VotingVisitsOf(v, e) # {}}

\* w lies between -k and k and is even or odd as k is.
TallyOf(w, k) == k >= 1 /\ -k <= w /\ w <= k /\ (w + k) % 2 = 0

(***************************************************************************)
(* C25.  At every point of VotingNetwork.build_network (one call, one row  *)
(* per legislator and ballot), for every edge and k the number of already  *)
(* processed ballots in which both its ends voted: k >= 1, the weight lies *)
(* between -k and k, and the weight is even or odd as k is.                *)
(***************************************************************************)
C25_TallyOfProcessedBallots ==
    (VotingUnderWay /\ OneRowPerVote) =>
        \A e \in EdgeSet(G) :
            TallyOf(G.weight[e], Cardinality(ProcessedCoVotes(e)))

(***************************************************************************)
(* C25, amended.  After every round of the pair loop, for every edge and k *)
(* the number of ballots in which the pair has had its round (the ballot   *)
(* in progress included, for the pairs it has reached): k >= 1, the weight *)
(* lies between -k and k, and the weight is even or odd as k is.           *)
(***************************************************************************)
C25_TallyOfVisitedBallots ==
    (VotingUnderWay /\ OneRowPerVote) =>
        \A e \in EdgeSet(G) :
            TallyOf(G.weight[e], Cardinality(VisitedCoVotes(e)))

\* In the middle of the first ballot, which three legislators share: the
\* pair {1, 2} has had its round and disagrees, two pairs are to come.
C25_Witness ==
    /\ VotingUnderWay /\ OneRowPerVote
    /\ pc = "edges" /\ votacao = 1 /\ Len(todo) = 2
    /\ ~BallotProcessed(1)
    /\ {1, 2} \in EdgeSet(G)
    /\ G.weight[{1, 2}] = -1

\* The tipoVoto of the last row of a in ballot v.
LastVoteOf(a, v) ==
    LET mine == {i \in 1..Len(df) : df[i].id_deputado = a /\ df[i].id = v}
    IN  df[CHOOSE i \in mine : \A j \in mine : j <= i].tipoVoto

(***************************************************************************)
(* C26.  When a ballot has several rows of one id_deputado, the legislator *)
(* counts once in it, with the tipoVoto of the last of these rows: the     *)
(* ballot changes the weight of each pair of its voters by exactly +1      *)
(* (equal last votes) or -1 (different last votes), never by more.         *)
(***************************************************************************)
C26_LastRowOfBallotCounts ==
    BallotDone =>
        \A a, b \in Ids :
            (a < b /\ VotedIn(a, votacao) /\ VotedIn(b, votacao)) =>
                G.weight[{a, b}] - WeightOrZero(before, {a, b}) =
                    IF LastVoteOf(a, votacao) = LastVoteOf(b, votacao) THEN 1 ELSE -1

\* Legislator 1 has two rows in ballot 1, "Sim" then "Nao", and legislator
\* 2 voted "Nao": the pair agrees, once.
C26_Witness ==
    /\ BallotDone /\ votacao = 1 /\ Len(df) = 3
    /\ df[1].id_deputado = 1 /\ df[1].id = 1 /\ df[1].tipoVoto = "Sim"
    /\ df[2].id_deputado = 1 /\ df[2].id = 1 /\ df[2].tipoVoto = "Nao"
    /\ df[3].id_deputado = 2 /\ df[3].id = 1 /\ df[3].tipoVoto = "Nao"
    /\ G.weight[{1, 2}] = 1

(***************************************************************************)
(* What the pages of the server hold.                                      *)
(***************************************************************************)
\* The 'dados' items of the pages 1..n, in page order.
RECURSIVE PagesData(_)
PagesData(n) == IF n = 0 THEN <<>> ELSE PagesData(n - 1) \o server[n].dados

\* The last page: the first page without a 'next' link, or page max_pages
\* when max_pages is given and comes first.
LastPage ==
    LET ends == {p \in 1..MaxPage : ~server[p].next} \cup {MaxPage}
                    \cup (IF max_pages.given THEN {max_pages.n} ELSE {})
    IN  CHOOSE p \in ends : \A q \in ends : p <= q

PagedReturned == cpc = "returned"

(***************************************************************************)
(* C27.  _get_paginated_data returns all the data of the pages: the        *)
(* 'dados' items of page 1 up to and including the last page, in page      *)
(* order, whatever happens on the single requests.                         *)
(***************************************************************************)
C27_AllPagesReturned == PagedReturned => all_data = PagesData(LastPage)

(***************************************************************************)
(* C28.  _get_paginated_data asks for the pages 1, 2, 3, ... one after the *)
(* other and, for any max_pages given, sends at most max_pages requests;   *)
(* without max_pages it stops at the first answer without 'dados', with    *)
(* empty 'dados' or without a 'next' link, and at the first request that   *)
(* fails.                                                                  *)
(***************************************************************************)
C28_AtMostMaxPagesRequests ==
    /\ \A i \in 1..Len(asked) : asked[i] = i
    /\ max_pages.given => Len(asked) <= max_pages.n
    /\ (cpc = "loop" /\ asked # <<>>) =>
            /\ raised = "none"
            /\ server[Len(asked)].has
            /\ server[Len(asked)].dados # <<>>
            /\ server[Len(asked)].next

(***************************************************************************)
(* C29.  _make_request sends exactly one HTTP GET per call, whatever       *)
(* config.max_retries is; when the request fails (transport, error status) *)
(* or the body is not JSON, the call raises CamaraAPIError and nothing     *)
(* else, and nothing is sent again.                                        *)
(***************************************************************************)
C29_OneGetPerRequest ==
    /\ [](raised \in {"none", "CamaraAPIError"})
    /\ [][asked' # asked =>
            /\ gets' = gets + 1
            /\ raised' = IF http' = "ok" THEN "none" ELSE "CamaraAPIError"]_vars

\* The second request, with max_retries = 3, met a body that is not JSON:
\* two GETs in all.
C29_Witness ==
    /\ max_retries = 3
    /\ Len(asked) = 2 /\ gets = 2
    /\ http = "badjson"
    /\ raised = "CamaraAPIError"
    /\ PagedReturned

====
